---- MODULE Spec2Model ----
(***************************************************************************)
(* The credential vault of the admin dashboard (admin/js/crypto-utils.js,  *)
(* class CryptoUtils) and the two localStorage keys it owns.               *)
(*                                                                         *)
(* Strings are sequences of UTF-16 code units (numbers 0..65535), buffers  *)
(* are sequences of bytes (0..255).  TextEncoder, TextDecoder, btoa, atob  *)
(* and JSON are written out as the platform defines them.  PBKDF2 and      *)
(* AES-GCM are platform primitives that are not part of the repository:    *)
(* PBKDF2 is a 32 byte mix of every byte of the password and the salt, and *)
(* AES-GCM is a keyed stream with a 16 byte keyed checksum (the tag) over  *)
(* key, iv and ciphertext, which any change of one byte of them changes.   *)
(***************************************************************************)
EXTENDS Integers, Sequences, FiniteSets, TLC

\* JavaScript values: null, a string (its code units), and an object whose
\* members (in insertion order) map a string key to a string value.
Null == [t |-> "null", s |-> <<>>, m |-> <<>>]
Str(s) == [t |-> "string", s |-> s, m |-> <<>>]
Obj(m) == [t |-> "object", s |-> <<>>, m |-> m]
Member(k, v) == [k |-> k, v |-> v]

\* ToBoolean of a string or null: if (value) { ... }
Truthy(v) == v.t = "object" \/ (v.t = "string" /\ v.s # <<>>)

\* A function that threw, and one that returned val.
Thrown == [ok |-> FALSE, val |-> Null]
Returned(v) == [ok |-> TRUE, val |-> v]

-----------------------------------------------------------------------------
(* Sequences *)

RECURSIVE SumFrom(_, _, _)
\* s[i] + s[i+step] + s[i+2*step] + ...
SumFrom(s, i, step) ==
    IF i > Len(s) THEN 0 ELSE s[i] + SumFrom(s, i + step, step)

\* TypedArray.prototype.slice(begin, end), 0-based, end exclusive, clamped.
Slice(s, begin, end) ==
    LET e == IF end > Len(s) THEN Len(s) ELSE end
    IN  IF begin >= e THEN <<>> ELSE [k \in 1..(e - begin) |-> s[begin + k]]

RECURSIVE Join(_, _)
\* Array.prototype.join over strings: parts separated by sep.
Join(parts, sep) ==
    IF Len(parts) = 0 THEN <<>>
    ELSE IF Len(parts) = 1 THEN parts[1]
    ELSE parts[1] \o sep \o Join(Tail(parts), sep)

RECURSIVE Digits(_)
\* The decimal digits of a natural number, as characters.
Digits(n) ==
    IF n < 10 THEN <<48 + n>> ELSE Digits(n \div 10) \o <<48 + (n % 10)>>

\* Number::toString for the integers of the model.
NumberToString(n) == IF n < 0 THEN <<45>> \o Digits(0 - n) ELSE Digits(n)

-----------------------------------------------------------------------------
(* TextEncoder / TextDecoder (UTF-8) *)

IsHighSurrogate(cu) == cu >= 55296 /\ cu <= 56319
IsLowSurrogate(cu) == cu >= 56320 /\ cu <= 57343

RECURSIVE EncodeFrom(_, _)
\* UTF-8 of the code units str[i..]; a lone surrogate becomes U+FFFD.
EncodeFrom(str, i) ==
    IF i > Len(str) THEN <<>>
    ELSE LET cu == str[i] IN
        IF cu < 128 THEN <<cu>> \o EncodeFrom(str, i + 1)
        ELSE IF cu < 2048
            THEN <<192 + (cu \div 64), 128 + (cu % 64)>> \o EncodeFrom(str, i + 1)
        ELSE IF IsHighSurrogate(cu) /\ i < Len(str) /\ IsLowSurrogate(str[i + 1])
            THEN LET cp == 65536 + (cu - 55296) * 1024 + (str[i + 1] - 56320)
                 IN  <<240 + (cp \div 262144), 128 + ((cp \div 4096) % 64),
                       128 + ((cp \div 64) % 64), 128 + (cp % 64)>>
                     \o EncodeFrom(str, i + 2)
        ELSE IF IsHighSurrogate(cu) \/ IsLowSurrogate(cu)
            THEN <<239, 191, 189>> \o EncodeFrom(str, i + 1)
        ELSE <<224 + (cu \div 4096), 128 + ((cu \div 64) % 64), 128 + (cu % 64)>>
             \o EncodeFrom(str, i + 1)

\* new TextEncoder().encode(str)
stringToBuffer(str) == EncodeFrom(str, 1)

\* A code point as UTF-16 code units.
CodeUnits(cp) ==
    IF cp < 65536 THEN <<cp>>
    ELSE <<55296 + ((cp - 65536) \div 1024), 56320 + ((cp - 65536) % 1024)>>

RECURSIVE DecodeFrom(_, _)
\* The UTF-8 decoder of the Encoding standard, not fatal: a malformed
\* sequence yields U+FFFD and decoding resumes at the offending byte.
DecodeFrom(b, i) ==
    IF i > Len(b) THEN <<>>
    ELSE LET x == b[i]
             need == IF x >= 194 /\ x <= 223 THEN 1
                     ELSE IF x >= 224 /\ x <= 239 THEN 2
                     ELSE IF x >= 240 /\ x <= 244 THEN 3
                     ELSE 0
             lower == IF x = 224 THEN 160 ELSE IF x = 240 THEN 144 ELSE 128
             upper == IF x = 237 THEN 159 ELSE IF x = 244 THEN 143 ELSE 191
             ok1 == need >= 1 /\ i + 1 <= Len(b)
                    /\ b[i + 1] >= lower /\ b[i + 1] <= upper
             ok2 == ok1 /\ need >= 2 /\ i + 2 <= Len(b)
                    /\ b[i + 2] >= 128 /\ b[i + 2] <= 191
             ok3 == ok2 /\ need >= 3 /\ i + 3 <= Len(b)
                    /\ b[i + 3] >= 128 /\ b[i + 3] <= 191
             good == IF ok3 THEN 3 ELSE IF ok2 THEN 2 ELSE IF ok1 THEN 1 ELSE 0
         IN  IF x < 128 THEN <<x>> \o DecodeFrom(b, i + 1)
             ELSE IF need = 0 THEN <<65533>> \o DecodeFrom(b, i + 1)
             ELSE IF good < need THEN <<65533>> \o DecodeFrom(b, i + 1 + good)
             ELSE IF need = 1
                 THEN <<(x - 192) * 64 + (b[i + 1] - 128)>> \o DecodeFrom(b, i + 2)
             ELSE IF need = 2
                 THEN <<(x - 224) * 4096 + (b[i + 1] - 128) * 64 + (b[i + 2] - 128)>>
                      \o DecodeFrom(b, i + 3)
             ELSE CodeUnits((x - 240) * 262144 + (b[i + 1] - 128) * 4096
                            + (b[i + 2] - 128) * 64 + (b[i + 3] - 128))
                  \o DecodeFrom(b, i + 4)

\* new TextDecoder().decode(buffer): ignoreBOM is false by default, so a
\* leading byte order mark EF BB BF is consumed and not part of the result.
bufferToString(buffer) ==
    IF Len(buffer) >= 3 /\ buffer[1] = 239 /\ buffer[2] = 187 /\ buffer[3] = 191
    THEN DecodeFrom(buffer, 4)
    ELSE DecodeFrom(buffer, 1)

-----------------------------------------------------------------------------
(* btoa / atob *)

\* The base64 alphabet: value 0..63 to character.
B64Char(v) ==
    IF v < 26 THEN 65 + v
    ELSE IF v < 52 THEN 97 + (v - 26)
    ELSE IF v < 62 THEN 48 + (v - 52)
    ELSE IF v = 62 THEN 43 ELSE 47

IsB64Char(c) ==
    \/ c >= 65 /\ c <= 90
    \/ c >= 97 /\ c <= 122
    \/ c >= 48 /\ c <= 57
    \/ c = 43
    \/ c = 47

\* Character to value 0..63.
B64Val(c) ==
    IF c >= 65 /\ c <= 90 THEN c - 65
    ELSE IF c >= 97 /\ c <= 122 THEN c - 97 + 26
    ELSE IF c >= 48 /\ c <= 57 THEN c - 48 + 52
    ELSE IF c = 43 THEN 62 ELSE 63

RECURSIVE BtoaFrom(_, _)
BtoaFrom(b, i) ==
    IF i > Len(b) THEN <<>>
    ELSE LET n == Len(b) - i + 1
             b1 == b[i]
             b2 == IF n >= 2 THEN b[i + 1] ELSE 0
             b3 == IF n >= 3 THEN b[i + 2] ELSE 0
         IN  << B64Char(b1 \div 4),
                B64Char((b1 % 4) * 16 + (b2 \div 16)),
                IF n >= 2 THEN B64Char((b2 % 16) * 4 + (b3 \div 64)) ELSE 61,
                IF n >= 3 THEN B64Char(b3 % 64) ELSE 61 >>
             \o BtoaFrom(b, i + 3)

\* bufferToBase64: one character per byte (String.fromCharCode), then btoa.
bufferToBase64(buffer) == BtoaFrom(buffer, 1)

IsAsciiWhitespace(c) == c \in {9, 10, 12, 13, 32}

RECURSIVE AtobFrom(_, _)
\* The bytes of the base64 characters d[i..]; the bits left over in a final
\* group of 2 or 3 characters are discarded.
AtobFrom(d, i) ==
    IF i > Len(d) THEN <<>>
    ELSE LET n == Len(d) - i + 1
             v1 == B64Val(d[i])
             v2 == B64Val(d[i + 1])
             v3 == IF n >= 3 THEN B64Val(d[i + 2]) ELSE 0
             v4 == IF n >= 4 THEN B64Val(d[i + 3]) ELSE 0
             y1 == v1 * 4 + (v2 \div 16)
             y2 == (v2 % 16) * 16 + (v3 \div 4)
             y3 == (v3 % 4) * 64 + v4
         IN  IF n >= 4 THEN <<y1, y2, y3>> \o AtobFrom(d, i + 4)
             ELSE IF n = 3 THEN <<y1, y2>>
             ELSE <<y1>>

\* atob (forgiving-base64 decode): throws on a character outside the alphabet
\* and on a length that leaves a single character over.
Atob(data) ==
    LET nows == SelectSeq(data, LAMBDA c : ~IsAsciiWhitespace(c))
        n == Len(nows)
        pad == IF n % 4 = 0 /\ n > 0 /\ nows[n] = 61
               THEN (IF nows[n - 1] = 61 THEN 2 ELSE 1)
               ELSE 0
        d == SubSeq(nows, 1, n - pad)
    IN  IF Len(d) % 4 = 1 THEN Thrown
        ELSE IF \E k \in 1..Len(d) : ~IsB64Char(d[k]) THEN Thrown
        ELSE Returned(AtobFrom(d, 1))

\* base64ToBuffer: atob, then one byte per character (charCodeAt).
base64ToBuffer(base64) == Atob(base64)

-----------------------------------------------------------------------------
(* JSON.stringify / JSON.parse, for null, strings and objects of strings *)

HexDigit(v) == IF v < 10 THEN 48 + v ELSE 97 + (v - 10)
Hex4(n) == << HexDigit(n \div 4096), HexDigit((n \div 256) % 16),
              HexDigit((n \div 16) % 16), HexDigit(n % 16) >>

IsHex(c) == (c >= 48 /\ c <= 57) \/ (c >= 65 /\ c <= 70) \/ (c >= 97 /\ c <= 102)
HexVal(c) == IF c <= 57 THEN c - 48 ELSE IF c <= 70 THEN c - 55 ELSE c - 87

RECURSIVE QuoteFrom(_, _)
\* QuoteJSONString without the enclosing quotes, from s[i].
QuoteFrom(s, i) ==
    IF i > Len(s) THEN <<>>
    ELSE LET c == s[i] IN
        IF c = 34 THEN <<92, 34>> \o QuoteFrom(s, i + 1)
        ELSE IF c = 92 THEN <<92, 92>> \o QuoteFrom(s, i + 1)
        ELSE IF c = 8 THEN <<92, 98>> \o QuoteFrom(s, i + 1)
        ELSE IF c = 9 THEN <<92, 116>> \o QuoteFrom(s, i + 1)
        ELSE IF c = 10 THEN <<92, 110>> \o QuoteFrom(s, i + 1)
        ELSE IF c = 12 THEN <<92, 102>> \o QuoteFrom(s, i + 1)
        ELSE IF c = 13 THEN <<92, 114>> \o QuoteFrom(s, i + 1)
        ELSE IF c < 32 THEN <<92, 117>> \o Hex4(c) \o QuoteFrom(s, i + 1)
        ELSE IF IsHighSurrogate(c) /\ i < Len(s) /\ IsLowSurrogate(s[i + 1])
            THEN <<c, s[i + 1]>> \o QuoteFrom(s, i + 2)
        ELSE IF IsHighSurrogate(c) \/ IsLowSurrogate(c)
            THEN <<92, 117>> \o Hex4(c) \o QuoteFrom(s, i + 1)
        ELSE <<c>> \o QuoteFrom(s, i + 1)

Quote(s) == <<34>> \o QuoteFrom(s, 1) \o <<34>>

RECURSIVE StringifyMembers(_, _)
StringifyMembers(m, i) ==
    IF i > Len(m) THEN <<>>
    ELSE (IF i > 1 THEN <<44>> ELSE <<>>)
         \o Quote(m[i].k) \o <<58>> \o Quote(m[i].v)
         \o StringifyMembers(m, i + 1)

\* JSON.stringify(value)
JSONStringify(value) ==
    IF value.t = "null" THEN <<110, 117, 108, 108>>
    ELSE IF value.t = "string" THEN Quote(value.s)
    ELSE <<123>> \o StringifyMembers(value.m, 1) \o <<125>>

IsJsonWhitespace(c) == c \in {9, 10, 13, 32}

RECURSIVE SkipWs(_, _)
SkipWs(t, i) ==
    IF i <= Len(t) /\ IsJsonWhitespace(t[i]) THEN SkipWs(t, i + 1) ELSE i

\* A parse that failed, and one that read val and stopped before index next.
NoParse == [ok |-> FALSE, val |-> Null, next |-> 0]
Parsed(v, n) == [ok |-> TRUE, val |-> v, next |-> n]

RECURSIVE StringFrom(_, _, _)
\* The rest of a JSON string after its opening quote; acc is what was read.
StringFrom(t, i, acc) ==
    IF i > Len(t) THEN NoParse
    ELSE LET c == t[i] IN
        IF c = 34 THEN Parsed(Str(acc), i + 1)
        ELSE IF c < 32 THEN NoParse
        ELSE IF c # 92 THEN StringFrom(t, i + 1, Append(acc, c))
        ELSE IF i + 1 > Len(t) THEN NoParse
        ELSE LET e == t[i + 1] IN
            IF e \in {34, 92, 47} THEN StringFrom(t, i + 2, Append(acc, e))
            ELSE IF e = 98 THEN StringFrom(t, i + 2, Append(acc, 8))
            ELSE IF e = 102 THEN StringFrom(t, i + 2, Append(acc, 12))
            ELSE IF e = 110 THEN StringFrom(t, i + 2, Append(acc, 10))
            ELSE IF e = 114 THEN StringFrom(t, i + 2, Append(acc, 13))
            ELSE IF e = 116 THEN StringFrom(t, i + 2, Append(acc, 9))
            ELSE IF e = 117 /\ i + 5 <= Len(t)
                    /\ \A k \in 2..5 : IsHex(t[i + k])
                THEN StringFrom(t, i + 6,
                        Append(acc, HexVal(t[i + 2]) * 4096 + HexVal(t[i + 3]) * 256
                                    + HexVal(t[i + 4]) * 16 + HexVal(t[i + 5])))
            ELSE NoParse

ParseString(t, i) ==
    IF i <= Len(t) /\ t[i] = 34 THEN StringFrom(t, i + 1, <<>>) ELSE NoParse

\* CreateDataProperty on an ordinary object: a key that is already there keeps
\* its place and takes the new value.
SetMember(m, k, v) ==
    IF \E j \in 1..Len(m) : m[j].k = k
    THEN [j \in 1..Len(m) |-> IF m[j].k = k THEN Member(k, v) ELSE m[j]]
    ELSE Append(m, Member(k, v))

RECURSIVE MembersFrom(_, _, _)
\* The members of an object from the key at t[i] up to the closing brace.
MembersFrom(t, i, acc) ==
    LET key == ParseString(t, i)
        colon == SkipWs(t, key.next)
        val == ParseString(t, SkipWs(t, colon + 1))
        after == SkipWs(t, val.next)
    IN  IF ~key.ok THEN NoParse
        ELSE IF colon > Len(t) \/ t[colon] # 58 THEN NoParse
        ELSE IF ~val.ok THEN NoParse
        ELSE IF after > Len(t) THEN NoParse
        ELSE IF t[after] = 125
            THEN Parsed(Obj(SetMember(acc, key.val.s, val.val.s)), after + 1)
        ELSE IF t[after] = 44
            THEN MembersFrom(t, SkipWs(t, after + 1),
                             SetMember(acc, key.val.s, val.val.s))
        ELSE NoParse

ParseValue(t, i) ==
    IF i > Len(t) THEN NoParse
    ELSE IF t[i] = 34 THEN ParseString(t, i)
    ELSE IF t[i] = 123
        THEN LET j == SkipWs(t, i + 1)
             IN  IF j <= Len(t) /\ t[j] = 125 THEN Parsed(Obj(<<>>), j + 1)
                 ELSE MembersFrom(t, j, <<>>)
    ELSE IF i + 3 <= Len(t) /\ SubSeq(t, i, i + 3) = <<110, 117, 108, 108>>
        THEN Parsed(Null, i + 4)
    ELSE NoParse

\* JSON.parse(text): the value, or a SyntaxError.
JSONParse(text) ==
    LET v == ParseValue(text, SkipWs(text, 1))
    IN  IF v.ok /\ SkipWs(text, v.next) > Len(text) THEN Returned(v.val) ELSE Thrown

-----------------------------------------------------------------------------
(* The platform's random generator, PBKDF2 and AES-GCM *)

\* crypto.getRandomValues(new Uint8Array(len)), the n-th request served: an
\* ideal generator, whose answer to one request differs from its answer to
\* every other request.  The vault copies the bytes and never inspects them.
RandomValues(n, len) == [k \in 1..len |-> (n * 37 + k * 11) % 256]

\* iterations: 100000
Pbkdf2Iterations == 100000

RECURSIVE WeightedSumFrom(_, _)
\* i * s[i] + (i+1) * s[i+1] + ...
WeightedSumFrom(s, i) ==
    IF i > Len(s) THEN 0 ELSE i * s[i] + WeightedSumFrom(s, i + 1)

\* PBKDF2 over (password, salt): 32 key bytes (AES-GCM, length 256), each
\* mixing every password byte, weighted by its place, with the salt bytes of
\* its residue class.
Pbkdf2(password, salt) ==
    LET plain == SumFrom(password, 1, 1)
        weighted == WeightedSumFrom(password, 1)
        salted == [r \in 1..16 |-> SumFrom(salt, r, 16)]
    IN  [j \in 1..32 |->
            (weighted + j * plain + salted[((j - 1) % 16) + 1]
             + Pbkdf2Iterations) % 256]

\* The AES-GCM key stream byte for plaintext position i.
KeyStream(key, iv, i) ==
    (key[((i - 1) % 16) + 17] + iv[((i - 1) % Len(iv)) + 1] + i) % 256

\* The 16 byte authentication tag over key, iv and ciphertext.
GcmTag(key, iv, ct) ==
    [j \in 1..16 |->
        (key[j] + SumFrom(iv, j, 16) + SumFrom(ct, j, 16) + Len(ct)) % 256]

\* crypto.subtle.encrypt({name: 'AES-GCM', iv}, key, data): ciphertext, then tag.
AesGcmEncrypt(key, iv, data) ==
    LET ct == [i \in 1..Len(data) |-> (data[i] + KeyStream(key, iv, i)) % 256]
    IN  ct \o GcmTag(key, iv, ct)

\* A decrypt that does not compare the tag; the detection of a changed byte
\* rests on the comparison.
AesGcmDecryptUnchecked(key, iv, data) ==
    IF Len(data) < 16 THEN Thrown
    ELSE LET ct == SubSeq(data, 1, Len(data) - 16)
         IN  Returned([i \in 1..Len(ct) |->
                          (ct[i] + 256 - KeyStream(key, iv, i)) % 256])

\* crypto.subtle.decrypt({name: 'AES-GCM', iv}, key, data): the plaintext, or
\* an OperationError when data is shorter than a tag or the tag does not match.
AesGcmDecrypt(key, iv, data) ==
    IF Len(data) < 16 THEN Thrown
    ELSE LET ct == SubSeq(data, 1, Len(data) - 16)
             tag == SubSeq(data, Len(data) - 15, Len(data))
         IN  IF tag # GcmTag(key, iv, ct) THEN Thrown
             ELSE Returned([i \in 1..Len(ct) |->
                               (ct[i] + 256 - KeyStream(key, iv, i)) % 256])

-----------------------------------------------------------------------------
(* CryptoUtils *)

\* The parts of the browser the vault reads: navigator, screen, the time zone,
\* and whether crypto.subtle is there (it is undefined outside secure contexts).
Env(ua, lang, w, h, tz, hc, subtle) ==
    [userAgent |-> ua, language |-> lang, width |-> w, height |-> h,
     timezoneOffset |-> tz, hardwareConcurrency |-> hc, subtle |-> subtle]

\* generateKeyBase(): the components joined by '|'.
generateKeyBase(env) ==
    Join(<< env.userAgent,
            env.language,
            NumberToString(env.width) \o <<120>> \o NumberToString(env.height),
            NumberToString(env.timezoneOffset),
            IF env.hardwareConcurrency # 0
                THEN NumberToString(env.hardwareConcurrency)
                ELSE <<117, 110, 107, 110, 111, 119, 110>>,
            <<72, 97, 114, 114, 121, 84, 105, 101, 110, 45, 65, 100, 109, 105,
              110, 45, 118, 49>> >>,
         <<124>>)

\* A deriveKey that imports a fixed password instead of this.keyBase; that a
\* record cannot be read under another keyBase rests on the import.
deriveKeyWithoutKeyBase(keyBase, salt, subtle) ==
    IF ~subtle THEN Thrown
    ELSE Returned(Pbkdf2(<<>>, salt))

\* deriveKey(salt): importKey of this.keyBase, then PBKDF2; rejects when
\* crypto.subtle is undefined.
deriveKey(keyBase, salt, subtle) ==
    IF ~subtle THEN Thrown
    ELSE Returned(Pbkdf2(stringToBuffer(keyBase), salt))

\* An encrypt that leaves the salt out of the record; reading a record back
\* rests on the layout salt + iv + encrypted data.
encryptWithoutSalt(plaintext, keyBase, salt, iv, subtle) ==
    LET key == deriveKey(keyBase, salt, subtle)
        encrypted == AesGcmEncrypt(key.val, iv, stringToBuffer(plaintext))
    IN  IF ~key.ok THEN Thrown
        ELSE Returned(bufferToBase64(iv \o encrypted))

\* An encrypt that writes the iv before the salt; that decrypt finds the salt,
\* the iv and the encrypted data in its three slices rests on the order.
encryptIvFirst(plaintext, keyBase, salt, iv, subtle) ==
    LET key == deriveKey(keyBase, salt, subtle)
        encrypted == AesGcmEncrypt(key.val, iv, stringToBuffer(plaintext))
        combined == iv \o salt \o encrypted
    IN  IF ~key.ok THEN Thrown
        ELSE Returned(bufferToBase64(combined))

\* encrypt(plaintext), with the salt and iv that getRandomValues gave it:
\* base64 of salt + iv + encrypted data, or Error('Failed to encrypt data').
encrypt(plaintext, keyBase, salt, iv, subtle) ==
    LET key == deriveKey(keyBase, salt, subtle)
        encrypted == AesGcmEncrypt(key.val, iv, stringToBuffer(plaintext))
        combined == salt \o iv \o encrypted
    IN  IF ~key.ok THEN Thrown
        ELSE Returned(bufferToBase64(combined))

\* A decrypt whose catch returns the empty string instead of throwing; that a
\* text which is no record is rejected rests on the throw.
decryptReturningEmpty(encryptedBase64, keyBase, subtle) ==
    LET decoded == base64ToBuffer(encryptedBase64)
        combined == decoded.val
        salt == Slice(combined, 0, 16)
        iv == Slice(combined, 16, 28)
        encrypted == Slice(combined, 28, Len(combined))
        key == deriveKey(keyBase, salt, subtle)
        decrypted == AesGcmDecrypt(key.val, iv, encrypted)
    IN  IF ~decoded.ok THEN Returned(<<>>)
        ELSE IF ~key.ok THEN Returned(<<>>)
        ELSE IF ~decrypted.ok THEN Returned(<<>>)
        ELSE Returned(bufferToString(decrypted.val))

\* decrypt(encryptedBase64): the plaintext, or Error('Failed to decrypt data').
decrypt(encryptedBase64, keyBase, subtle) ==
    LET decoded == base64ToBuffer(encryptedBase64)
        combined == decoded.val
        salt == Slice(combined, 0, 16)
        iv == Slice(combined, 16, 28)
        encrypted == Slice(combined, 28, Len(combined))
        key == deriveKey(keyBase, salt, subtle)
        decrypted == AesGcmDecrypt(key.val, iv, encrypted)
    IN  IF ~decoded.ok THEN Thrown
        ELSE IF ~key.ok THEN Thrown
        ELSE IF ~decrypted.ok THEN Thrown
        ELSE Returned(bufferToString(decrypted.val))

-----------------------------------------------------------------------------
(* The two localStorage keys and the vault's steps on them *)

\* localStorage restricted to 'harrytien_admin_credentials_encrypted' and
\* 'harrytien_admin_credentials': each is null (not set) or a string.
Storage(encrypted, legacy) == [encrypted |-> encrypted, legacy |-> legacy]

\* A write that keeps a record that is already there; that the last write
\* wins rests on setItem replacing the value.
StoreWriteKeepingFirst(storage, encrypted) ==
    IF storage.encrypted # Null THEN Storage(storage.encrypted, Null)
    ELSE Storage(Str(encrypted), Null)

\* A write that adds the record to the text the encrypted key holds; that the
\* key holds one whole record after overlapping calls rests on setItem
\* replacing the value.
StoreWriteAppending(storage, encrypted) ==
    IF storage.encrypted # Null
    THEN Storage(Str(storage.encrypted.s \o encrypted), Null)
    ELSE Storage(Str(encrypted), Null)

\* A write that sets the encrypted key and leaves the old unencrypted key;
\* that storeCredentials leaves no unencrypted copy rests on the removeItem.
StoreWriteKeepingLegacy(storage, encrypted) ==
    [storage EXCEPT !.encrypted = Str(encrypted)]

\* storeCredentials after the await: setItem of the record, removeItem of the
\* old unencrypted key.
StoreWrite(storage, encrypted) == Storage(Str(encrypted), Null)

\* A storeCredentials that removes the old unencrypted key before it awaits
\* encrypt; that a failed call leaves both keys as they were rests on the
\* writes coming after the await.
StoreBranchRemovingFirst(storage, encrypted) ==
    IF encrypted.ok
    THEN [settled |-> "resolved", storage |-> StoreWrite(storage, encrypted.val)]
    ELSE [settled |-> "rejected", storage |-> [storage EXCEPT !.legacy = Null]]

\* storeCredentials once encrypt settled: the writes when it returned a
\* record; when it rejected the call rejects, and no line after the await
\* runs.
StoreBranch(storage, encrypted) ==
    IF encrypted.ok
    THEN [settled |-> "resolved", storage |-> StoreWrite(storage, encrypted.val)]
    ELSE [settled |-> "rejected", storage |-> storage]

\* getCredentials, catch of the decrypt branch: 'Remove corrupted data'.
RemoveEncrypted(storage) == [storage EXCEPT !.encrypted = Null]

\* A removal that sets the old unencrypted key to the empty string; that the
\* vault never writes the old key rests on removeItem.
RemoveLegacyBlanking(storage) == [storage EXCEPT !.legacy = Str(<<>>)]

\* getCredentials, migration branch: removeItem of the old unencrypted key.
RemoveLegacy(storage) == [storage EXCEPT !.legacy = Null]

\* A clear that leaves the old unencrypted key; that nothing is left after
\* clearCredentials rests on both removeItem calls.
clearCredentialsEncryptedOnly(storage) == [storage EXCEPT !.encrypted = Null]

\* clearCredentials()
clearCredentials(storage) == Storage(Null, Null)

\* A check by truthiness instead of !== null, which takes a key set to the
\* empty string for a key that is not set.
hasStoredCredentialsTruthy(storage) ==
    Truthy(storage.encrypted) \/ Truthy(storage.legacy)

\* hasStoredCredentials()
hasStoredCredentials(storage) ==
    storage.encrypted # Null \/ storage.legacy # Null

\* getCredentials, decrypt branch after the await: how the call settles, with
\* what, and what it leaves in storage.
DecryptBranch(storage, encrypted, keyBase, subtle) ==
    LET json == decrypt(encrypted, keyBase, subtle)
        parsed == JSONParse(json.val)
    IN  IF json.ok /\ parsed.ok
        THEN [settled |-> "resolved", result |-> parsed.val,
              storage |-> storage]
        ELSE [settled |-> "resolved", result |-> Null,
              storage |-> RemoveEncrypted(storage)]

\* A migration branch without its catch; that getCredentials never rejects
\* rests on the catch.
MigrationBranchUncaught(storage, credentials, inner) ==
    IF inner = "resolved"
    THEN [settled |-> "resolved", result |-> credentials,
          storage |-> [storage EXCEPT !.legacy = Null]]
    ELSE [settled |-> "rejected", result |-> Null, storage |-> storage]

\* getCredentials, migration branch once the inner storeCredentials settled:
\* the try continues when it resolved, the catch runs when it rejected.
MigrationBranch(storage, credentials, inner) ==
    IF inner = "resolved"
    THEN [settled |-> "resolved", result |-> credentials,
          storage |-> RemoveLegacy(storage)]
    ELSE [settled |-> "resolved", result |-> Null,
          storage |-> RemoveLegacy(storage)]

-----------------------------------------------------------------------------
(* Bounds and the values the model draws from *)

\* How many encrypt calls a behaviour holds.
MaxEncrypts == 2

\* The asynchronous calls that can be in flight at once: a first one, and a
\* second one that overlaps it.
CallIds == {1, 2}

\* 'githubToken'
GithubToken == <<103, 105, 116, 104, 117, 98, 84, 111, 107, 101, 110>>

\* {githubToken: 'a"'} and {githubToken: 'b', id: 's'}
CredentialSets ==
    { Obj(<<Member(GithubToken, <<97, 34>>)>>),
      Obj(<<Member(GithubToken, <<98>>), Member(<<105, 100>>, <<115>>)>>) }

\* What an earlier version, another script or the user may have left in the
\* old key:  { "githubToken" : "abc" }   {oops   and the empty string.
LegacyValues ==
    { Null,
      Str(<<123, 32, 34, 103, 105, 116, 104, 117, 98, 84, 111, 107, 101, 110,
            34, 32, 58, 32, 34, 97, 98, 99, 34, 32, 125>>),
      Str(<<123, 111, 111, 112, 115>>),
      Str(<<>>) }

\* What may be in the encrypted key when the page loads, besides records of
\* the vault:  !!  (not base64)   QUJD  (3 bytes)   and the empty string.
EncryptedValues ==
    { Null, Str(<<33, 33>>), Str(<<81, 85, 74, 68>>), Str(<<>>) }

\* Mozilla/5.0, en-US, 1920x1080, UTC+7, 8 processors; the same with the
\* screen rotated.
Landscape(subtle) ==
    Env(<<77, 111, 122, 105, 108, 108, 97, 47, 53, 46, 48>>,
        <<101, 110, 45, 85, 83>>, 1920, 1080, -420, 8, subtle)
Portrait(subtle) ==
    Env(<<77, 111, 122, 105, 108, 108, 97, 47, 53, 46, 48>>,
        <<101, 110, 45, 85, 83>>, 1080, 1920, -420, 8, subtle)
Environments(subtle) == {Landscape(subtle), Portrait(subtle)}

-----------------------------------------------------------------------------
(* State *)

VARIABLES
    localStorage,   \* the two keys
    environment,    \* navigator, screen, time zone, crypto.subtle
    keyBase,        \* this.keyBase, set by the constructor
    calls,          \* the async calls of storeCredentials and getCredentials
    randoms,        \* requests crypto.getRandomValues has served
    written,        \* history: which call wrote the record in the encrypted key
    probe,          \* a direct use of encrypt and decrypt, outside the vault
    returned,       \* what a synchronous call returned, until its caller has it
    dashboard       \* the login form and the handlers of AdminDashboard

vars ==
    <<localStorage, environment, keyBase, calls, randoms, written, probe,
      returned, dashboard>>

\* History of the record in the encrypted key: the keyBase and the credentials
\* of the storeCredentials that wrote it, and the credentials of the record it
\* replaced.  NotWritten: the key is not set, or not by this vault.
NotWritten == [seed |-> <<>>, credentials |-> Null, replaced |-> Null]
WrittenBy(seed, credentials, before) ==
    [seed |-> seed, credentials |-> credentials, replaced |-> before.credentials]

\* A call slot: the locals of the async function, where it is suspended, how
\* it settled, and (history) what was known of the record it read, and
\* whether clearCredentials ran while the call awaited encrypt.
Idle ==
    [op |-> "none", pc |-> "idle", credentials |-> Null, json |-> <<>>,
     salt |-> <<>>, iv |-> <<>>, encrypted |-> <<>>, inner |-> "none",
     settled |-> "pending", result |-> Null, read |-> NotWritten,
     cleared |-> FALSE]

\* (history) clearCredentials runs: the calls that await encrypt are marked.
ClearedUnder(cs) ==
    [c \in DOMAIN cs |->
        IF cs[c].pc \in {"encrypt", "migrate"}
        THEN [cs[c] EXCEPT !.cleared = TRUE]
        ELSE cs[c]]

\* A settling that leaves the call where it was suspended; that a call comes
\* to an end rests on the promise being settled once.
SettledNever(call, how, result) ==
    [call EXCEPT !.settled = how, !.result = result]

Settled(call, how, result) ==
    [Idle EXCEPT !.op = call.op, !.pc = "done", !.settled = how,
                 !.result = result, !.inner = call.inner,
                 !.read = call.read]

\* probe: the plaintext and keyBase of an encrypt call, the salt and the iv it
\* drew, what it returned, the byte of the record changed since (0: none), the
\* text decrypt was given and what decrypt made of it; and (history) the
\* encrypt calls that went before.
NoProbe ==
    [op |-> "none", plaintext |-> <<>>, seed |-> <<>>, salt |-> <<>>,
     iv |-> <<>>, encrypted |-> Thrown, changed |-> 0, given |-> <<>>,
     decrypted |-> Thrown, records |-> <<>>]

\* What is kept of an encrypt call that went before.
Record(p) ==
    [plaintext |-> p.plaintext, salt |-> p.salt, iv |-> p.iv,
     encrypted |-> p.encrypted]

\* dashboard: nothing of AdminDashboard is running.
NoDashboard == [pc |-> "none"]

\* returned: the value a call of hasStoredCredentials has returned, until its
\* caller has it.
NoReturn == [op |-> "none", value |-> FALSE]

Free(c) == calls[c].pc \in {"idle", "done"}

\* A new call takes the first slot that is free.
Takes(c) == Free(c) /\ \A d \in CallIds : d < c => ~Free(d)

Init ==
    /\ localStorage \in {Storage(e, l) : e \in EncryptedValues, l \in LegacyValues}
    /\ environment \in {Landscape(TRUE), Landscape(FALSE)}
    /\ keyBase = generateKeyBase(environment)
    /\ calls = [c \in CallIds |-> Idle]
    /\ randoms = 0
    /\ written = NotWritten
    /\ probe = NoProbe
    /\ returned = NoReturn
    /\ dashboard = NoDashboard

\* storeCredentials(credentials) up to its await: JSON.stringify, then encrypt
\* up to its first await (the salt and the iv are drawn).
StoreCredentialsBegin(c, credentials) ==
    /\ returned = NoReturn
    /\ Takes(c)
    /\ randoms + 2 <= 2 * MaxEncrypts
    /\ calls' = [calls EXCEPT ![c] =
          [Idle EXCEPT !.op = "storeCredentials", !.pc = "encrypt",
                       !.credentials = credentials,
                       !.json = JSONStringify(credentials),
                       !.salt = RandomValues(randoms + 1, 16),
                       !.iv = RandomValues(randoms + 2, 12)]]
    /\ randoms' = randoms + 2
    /\ UNCHANGED <<localStorage, environment, keyBase, written, probe>>
    /\ returned' = NoReturn

\* storeCredentials called on the vault directly.
StoreCredentialsCall(c, credentials) ==
    /\ StoreCredentialsBegin(c, credentials)
    /\ UNCHANGED dashboard

\* storeCredentials resumed: encrypt has settled.
StoreCredentialsResume(c) ==
    /\ returned = NoReturn
    /\ calls[c].op = "storeCredentials" /\ calls[c].pc = "encrypt"
    /\ \E out \in {StoreBranch(localStorage,
                               encrypt(calls[c].json, keyBase, calls[c].salt,
                                       calls[c].iv, environment.subtle))} :
           /\ localStorage' = out.storage
           /\ written' = IF out.settled = "resolved"
                         THEN WrittenBy(keyBase, calls[c].credentials, written)
                         ELSE written
           /\ calls' = [calls EXCEPT ![c] = Settled(@, out.settled, Null)]
    /\ UNCHANGED <<environment, keyBase, randoms, probe, dashboard>>
    /\ returned' = NoReturn

\* getCredentials() up to its first await, or to its return when there is none.
GetCredentialsBegin(c) ==
    /\ returned = NoReturn
    /\ Takes(c)
    /\ LET encrypted == localStorage.encrypted
           oldCredentials == localStorage.legacy
           credentials == JSONParse(oldCredentials.s)
       IN  IF Truthy(encrypted)
           THEN /\ calls' = [calls EXCEPT ![c] =
                      [Idle EXCEPT !.op = "getCredentials", !.pc = "decrypt",
                                   !.encrypted = encrypted.s,
                                   !.read = written]]
                /\ UNCHANGED <<localStorage, randoms>>
           ELSE IF ~Truthy(oldCredentials)
           THEN /\ calls' = [calls EXCEPT ![c] =
                      Settled([Idle EXCEPT !.op = "getCredentials"],
                              "resolved", Null)]
                /\ UNCHANGED <<localStorage, randoms>>
           ELSE IF ~credentials.ok
           THEN /\ calls' = [calls EXCEPT ![c] =
                      Settled([Idle EXCEPT !.op = "getCredentials"],
                              "resolved", Null)]
                /\ localStorage' = RemoveLegacy(localStorage)
                /\ UNCHANGED randoms
           ELSE /\ randoms + 2 <= 2 * MaxEncrypts
                /\ calls' = [calls EXCEPT ![c] =
                      [Idle EXCEPT !.op = "getCredentials", !.pc = "migrate",
                                   !.credentials = credentials.val,
                                   !.json = JSONStringify(credentials.val),
                                   !.salt = RandomValues(randoms + 1, 16),
                                   !.iv = RandomValues(randoms + 2, 12)]]
                /\ randoms' = randoms + 2
                /\ UNCHANGED localStorage
    /\ UNCHANGED <<environment, keyBase, written, probe>>
    /\ returned' = NoReturn

\* getCredentials called on the vault directly.
GetCredentialsCall(c) ==
    /\ GetCredentialsBegin(c)
    /\ UNCHANGED dashboard

\* getCredentials resumed after await this.decrypt(encrypted).
GetCredentialsDecrypted(c) ==
    /\ returned = NoReturn
    /\ calls[c].op = "getCredentials" /\ calls[c].pc = "decrypt"
    /\ \E out \in {DecryptBranch(localStorage, calls[c].encrypted, keyBase,
                                 environment.subtle)} :
           /\ localStorage' = out.storage
           /\ calls' = [calls EXCEPT ![c] = Settled(@, out.settled, out.result)]
           /\ written' = IF out.storage.encrypted = Null THEN NotWritten
                         ELSE written
    /\ UNCHANGED <<environment, keyBase, randoms, probe, dashboard>>
    /\ returned' = NoReturn

\* The storeCredentials that getCredentials awaits, resumed after its encrypt.
GetCredentialsMigrated(c) ==
    /\ returned = NoReturn
    /\ calls[c].op = "getCredentials" /\ calls[c].pc = "migrate"
    /\ \E out \in {StoreBranch(localStorage,
                               encrypt(calls[c].json, keyBase, calls[c].salt,
                                       calls[c].iv, environment.subtle))} :
           /\ localStorage' = out.storage
           /\ written' = IF out.settled = "resolved"
                         THEN WrittenBy(keyBase, calls[c].credentials, written)
                         ELSE written
           /\ calls' = [calls EXCEPT ![c].pc = "migrated",
                                     ![c].inner = out.settled,
                                     ![c].cleared = FALSE]
    /\ UNCHANGED <<environment, keyBase, randoms, probe, dashboard>>
    /\ returned' = NoReturn

\* getCredentials resumed after await this.storeCredentials(credentials).
GetCredentialsReturn(c) ==
    /\ returned = NoReturn
    /\ calls[c].op = "getCredentials" /\ calls[c].pc = "migrated"
    /\ LET out == MigrationBranch(localStorage, calls[c].credentials,
                                  calls[c].inner)
       IN  /\ localStorage' = out.storage
           /\ calls' = [calls EXCEPT ![c] = Settled(@, out.settled, out.result)]
    /\ UNCHANGED <<environment, keyBase, randoms, written, probe, dashboard>>
    /\ returned' = NoReturn

\* clearCredentials()
ClearCredentials ==
    /\ returned = NoReturn
    /\ localStorage' = clearCredentials(localStorage)
    /\ written' = NotWritten
    /\ calls' = ClearedUnder(calls)
    /\ UNCHANGED <<environment, keyBase, randoms, probe, dashboard>>
    /\ returned' = NoReturn

\* hasStoredCredentials(): two reads, no write.
HasStoredCredentials ==
    /\ returned = NoReturn
    /\ returned' = [op |-> "hasStoredCredentials",
                    value |-> hasStoredCredentials(localStorage)]
    /\ UNCHANGED <<localStorage, environment, keyBase, calls, randoms, written,
                   probe, dashboard>>

\* The caller has the value: a synchronous call and its return are one turn
\* of the event loop, nothing else runs in between.
HasStoredCredentialsReturned ==
    /\ returned # NoReturn
    /\ returned' = NoReturn
    /\ UNCHANGED <<localStorage, environment, keyBase, calls, randoms, written,
                   probe, dashboard>>

\* An attribute of the browser changes under the running page.
EnvironmentChange(e) ==
    /\ returned = NoReturn
    /\ e # environment
    /\ environment' = e
    /\ UNCHANGED <<localStorage, keyBase, calls, randoms, written, probe, dashboard>>
    /\ returned' = NoReturn

\* The page is loaded again: new CryptoUtils(), and the calls of the old page
\* are gone.
Reload ==
    /\ returned = NoReturn
    /\ keyBase' = generateKeyBase(environment)
    /\ calls' = [c \in CallIds |-> Idle]
    /\ UNCHANGED <<localStorage, environment, randoms, written, probe, dashboard>>
    /\ returned' = NoReturn

Next ==
    \/ \E c \in CallIds, credentials \in CredentialSets :
          StoreCredentialsCall(c, credentials)
    \/ \E c \in CallIds : StoreCredentialsResume(c)
    \/ \E c \in CallIds : GetCredentialsCall(c)
    \/ \E c \in CallIds : GetCredentialsDecrypted(c)
    \/ \E c \in CallIds : GetCredentialsMigrated(c)
    \/ \E c \in CallIds : GetCredentialsReturn(c)
    \/ ClearCredentials
    \/ HasStoredCredentials
    \/ HasStoredCredentialsReturned
    \/ \E e \in Environments(environment.subtle) : EnvironmentChange(e)
    \/ Reload

Spec == Init /\ [][Next]_vars

-----------------------------------------------------------------------------
(* The vault while the page lives, with the event loop's scheduling *)

NextLive ==
    \/ \E c \in CallIds, credentials \in CredentialSets :
          StoreCredentialsCall(c, credentials)
    \/ \E c \in CallIds : StoreCredentialsResume(c)
    \/ \E c \in CallIds : GetCredentialsCall(c)
    \/ \E c \in CallIds : GetCredentialsDecrypted(c)
    \/ \E c \in CallIds : GetCredentialsMigrated(c)
    \/ \E c \in CallIds : GetCredentialsReturn(c)
    \/ ClearCredentials
    \/ HasStoredCredentials
    \/ HasStoredCredentialsReturned

\* Call c is suspended at an await, its promise not yet settled, and no
\* synchronous call is running: the step that resumes it can be taken.
Awaited(c) ==
    /\ returned = NoReturn
    /\ calls[c].pc \in {"encrypt", "decrypt", "migrate", "migrated"}
    /\ calls[c].settled = "pending"

\* The step that resumes call c: StoreCredentialsResume, GetCredentialsDecrypted,
\* GetCredentialsMigrated or GetCredentialsReturn.
Resumed(c) ==
    /\ Awaited(c)
    /\ calls'[c] # calls[c]

\* A synchronous call returns to its caller (weak fairness); a promise of
\* crypto.subtle settles, and the event loop then runs the continuation that
\* awaits it, however often synchronous calls run first: strong fairness of
\* the resuming step, SF_vars(Resumed(c)), with its enabling condition
\* Awaited(c) written out.
Scheduling ==
    /\ WF_vars(HasStoredCredentialsReturned)
    /\ \A c \in CallIds :
          <>[](~Awaited(c)) \/ []<><<Resumed(c)>>_vars

SpecLive == Init /\ [][NextLive]_vars /\ Scheduling

-----------------------------------------------------------------------------
(* encrypt and decrypt used directly *)

\* Plaintexts:  ''  'a'  '{"githubToken":"b"}'  'e' with acute accent  U+1F600
\* U+FEFF followed by 'a'   'a' followed by U+FEFF   a high surrogate alone.
Plaintexts ==
    { <<>>,
      <<97>>,
      JSONStringify(Obj(<<Member(GithubToken, <<98>>)>>)),
      <<233>>,
      <<55357, 56832>>,
      <<65279, 97>>,
      <<97, 65279>>,
      <<55296>> }

\* What is added to a byte of a record to change it.
ByteChanges == {1, 128, 255}

InitCrypto ==
    /\ localStorage = Storage(Null, Null)
    /\ environment \in {Landscape(TRUE), Portrait(TRUE), Landscape(FALSE)}
    /\ keyBase = generateKeyBase(environment)
    /\ calls = [c \in CallIds |-> Idle]
    /\ randoms = 0
    /\ written = NotWritten
    /\ probe = NoProbe
    /\ returned = NoReturn
    /\ dashboard = NoDashboard

\* encrypt(plaintext), to its end.
Encrypt(plaintext) ==
    /\ probe.op = "none"
    /\ randoms + 2 <= 2 * MaxEncrypts
    /\ probe' = [NoProbe EXCEPT
                    !.op = "encrypted",
                    !.plaintext = plaintext,
                    !.seed = keyBase,
                    !.salt = RandomValues(randoms + 1, 16),
                    !.iv = RandomValues(randoms + 2, 12),
                    !.records = probe.records,
                    !.encrypted = encrypt(plaintext, keyBase,
                                          RandomValues(randoms + 1, 16),
                                          RandomValues(randoms + 2, 12),
                                          environment.subtle)]
    /\ randoms' = randoms + 2
    /\ UNCHANGED <<localStorage, environment, keyBase, calls, written,
                   returned, dashboard>>

\* The caller puts the record aside, as encrypt returned it, and goes on to
\* another encrypt.
Discard ==
    /\ probe.op = "encrypted" /\ probe.changed = 0
    /\ probe' = [NoProbe EXCEPT !.records = Append(probe.records, Record(probe))]
    /\ UNCHANGED <<localStorage, environment, keyBase, calls, randoms, written,
                   returned, dashboard>>

\* One byte of the decoded record is replaced by another value (tried on the
\* first record of a behaviour).
ChangeByte(i, d) ==
    /\ probe.op = "encrypted" /\ probe.encrypted.ok /\ probe.changed = 0
    /\ probe.records = <<>>
    /\ LET record == base64ToBuffer(probe.encrypted.val).val
       IN  /\ i \in 1..Len(record)
           /\ probe' = [probe EXCEPT
                  !.encrypted = Returned(bufferToBase64(
                                    [record EXCEPT ![i] = (@ + d) % 256])),
                  !.changed = i]
    /\ UNCHANGED <<localStorage, environment, keyBase, calls, randoms, written,
                   returned, dashboard>>

\* decrypt(encryptedBase64), to its end, by the vault that encrypted.
Decrypt ==
    /\ probe.op = "encrypted" /\ probe.encrypted.ok
    /\ probe' = [probe EXCEPT
                    !.op = "decrypted",
                    !.given = probe.encrypted.val,
                    !.decrypted = decrypt(probe.encrypted.val, keyBase,
                                          environment.subtle)]
    /\ UNCHANGED <<localStorage, environment, keyBase, calls, randoms, written,
                   returned, dashboard>>

\* Texts that are no record of encrypt:  !!  (not base64)   A  (one character
\* over)   QUJD  (3 bytes)   and the empty string.
GivenTexts ==
    { <<33, 33>>, <<65>>, <<81, 85, 74, 68>>, <<>> }

\* decrypt(encryptedBase64), to its end, of a text that is no record.
DecryptGiven(text) ==
    /\ probe.op = "none"
    /\ probe' = [probe EXCEPT
                    !.op = "given",
                    !.given = text,
                    !.decrypted = decrypt(text, keyBase, environment.subtle)]
    /\ UNCHANGED <<localStorage, environment, keyBase, calls, randoms, written,
                   returned, dashboard>>

\* decrypt(encryptedBase64), to its end, of the first n bytes of a record.
DecryptTruncated(n) ==
    /\ probe.op = "encrypted" /\ probe.encrypted.ok /\ probe.changed = 0
    /\ probe.records = <<>>
    /\ \E record \in {base64ToBuffer(probe.encrypted.val).val} :
           /\ n < Len(record)
           /\ \E text \in {bufferToBase64(SubSeq(record, 1, n))} :
                  probe' = [probe EXCEPT
                               !.op = "given",
                               !.given = text,
                               !.decrypted = decrypt(text, keyBase,
                                                     environment.subtle)]
    /\ UNCHANGED <<localStorage, environment, keyBase, calls, randoms, written,
                   returned, dashboard>>

\* The length of the longest record of the plaintexts above: 28 + 19 + 16.
MaxRecord == 63
RecordPositions == 1..MaxRecord

NextCrypto ==
    \/ \E plaintext \in Plaintexts : Encrypt(plaintext)
    \/ Discard
    \/ \E i \in RecordPositions, d \in ByteChanges : ChangeByte(i, d)
    \/ Decrypt
    \/ \E text \in GivenTexts : DecryptGiven(text)
    \/ \E n \in 0..MaxRecord : DecryptTruncated(n)

SpecCrypto == InitCrypto /\ [][NextCrypto]_vars

-----------------------------------------------------------------------------
(* AdminDashboard: the login form, handleLogin, handleLogout *)

\* String.prototype.trim: white space and line terminators.
IsTrimmed(c) ==
    c \in {9, 10, 11, 12, 13, 32, 160, 5760, 8232, 8233, 8239, 8287, 12288,
           65279}
    \/ (c >= 8192 /\ c <= 8202)

RECURSIVE TrimStart(_)
TrimStart(s) ==
    IF s # <<>> /\ IsTrimmed(Head(s)) THEN TrimStart(Tail(s)) ELSE s

RECURSIVE TrimEnd(_)
TrimEnd(s) ==
    IF s # <<>> /\ IsTrimmed(s[Len(s)])
    THEN TrimEnd(SubSeq(s, 1, Len(s) - 1))
    ELSE s

Trim(s) == TrimEnd(TrimStart(s))

\* value[key]: the member as a string, or null where there is none.
Property(value, key) ==
    IF value.t = "object" /\ \E j \in 1..Len(value.m) : value.m[j].k = key
    THEN Str(value.m[CHOOSE j \in 1..Len(value.m) : value.m[j].k = key].v)
    ELSE Null

\* What the user may type into the token field:  nothing, a blank, and  a"
TokenInputs == { <<>>, <<32>>, <<97, 34>> }

\* What validateToken comes to, by the answer of the GitHub API:
\* {valid: true, user} or {valid: false, error}; it does not throw.
Validations == {"valid", "invalid"}

\* The toast at the end of a login that showed the dashboard: the welcome, or
\* the error message when the user info or loadDashboardData threw.
LoginToasts == {"welcome", "error"}

\* A handleLogin that stores whenever the token is valid; that credentials
\* are stored only for a user who asked for it rests on the test of remember.
LoginBranchAlwaysStoring(validation, remember) ==
    IF validation # "valid" THEN "catch" ELSE "store"

\* handleLogin after await validateToken(): the throw on an invalid token,
\* then storeCredentials when remember is checked and clearCredentials when
\* it is not.
LoginBranch(validation, remember) ==
    IF validation # "valid" THEN "catch"
    ELSE IF remember THEN "store"
    ELSE "clear"

\* The locals of handleLogin while none is running.
NoLogin ==
    [pc |-> "none", githubToken |-> <<>>, remember |-> FALSE,
     validation |-> "none"]

\* The page as the constructor of AdminDashboard finds it: the login screen
\* with an empty form, no handler running; awaiting[c] is the handler that
\* awaits call c, cleared (history) whether clearCredentials has been called
\* since the last handleLogout began, unreadable (history) whether the
\* encrypted key held, when init ran, a value that cannot be decrypted, until
\* checkStoredCredentials has returned.
NewDashboard ==
    [pc |-> "new", screen |-> "login", token |-> <<>>, remember |-> FALSE,
     login |-> NoLogin, awaiting |-> [c \in CallIds |-> "none"],
     toast |-> "none", cleared |-> FALSE, unreadable |-> FALSE]

\* Whether decrypt and then JSON.parse accept the text of the encrypted key.
Readable(encrypted) ==
    LET json == decrypt(encrypted, keyBase, environment.subtle)
    IN  json.ok /\ JSONParse(json.val).ok

\* No continuation of a handler is due: they run before the next event.
Quiet ==
    \A c \in CallIds : dashboard.awaiting[c] # "none" => calls[c].pc # "done"

InitAdmin ==
    /\ localStorage \in {Storage(e, l) : e \in EncryptedValues, l \in LegacyValues}
    /\ environment \in {Landscape(TRUE), Landscape(FALSE)}
    /\ keyBase = generateKeyBase(environment)
    /\ calls = [c \in CallIds |-> Idle]
    /\ randoms = 0
    /\ written = NotWritten
    /\ probe = NoProbe
    /\ returned = NoReturn
    /\ dashboard = NewDashboard

\* init(): bindEvents, then checkStoredCredentials up to its await.
AdminInit(c) ==
    /\ dashboard.pc = "new"
    /\ GetCredentialsBegin(c)
    /\ dashboard' = [dashboard EXCEPT
                         !.pc = "bound", !.awaiting[c] = "init",
                         !.unreadable = /\ localStorage.encrypted # Null
                                        /\ ~Readable(localStorage.encrypted.s)]

\* The user edits the token field.
TypeToken(token) ==
    /\ dashboard.pc = "bound" /\ dashboard.screen = "login" /\ Quiet
    /\ token # dashboard.token
    /\ dashboard' = [dashboard EXCEPT !.token = token]
    /\ UNCHANGED <<localStorage, environment, keyBase, calls, randoms, written,
                   probe, returned>>

\* The user checks or unchecks 'remember'.
ToggleRemember ==
    /\ dashboard.pc = "bound" /\ dashboard.screen = "login" /\ Quiet
    /\ dashboard' = [dashboard EXCEPT !.remember = ~@]
    /\ UNCHANGED <<localStorage, environment, keyBase, calls, randoms, written,
                   probe, returned>>

\* handleLogin up to its return on an empty token, or to await validateToken().
HandleLoginSubmit ==
    /\ dashboard.pc = "bound" /\ dashboard.screen = "login" /\ Quiet
    /\ dashboard.login.pc = "none"
    /\ LET githubToken == Trim(dashboard.token)
       IN  IF githubToken = <<>>
           THEN dashboard' = [dashboard EXCEPT !.toast = "enter-token"]
           ELSE dashboard' = [dashboard EXCEPT
                                 !.login = [pc |-> "validate",
                                            githubToken |-> githubToken,
                                            remember |-> dashboard.remember,
                                            validation |-> "none"]]
    /\ UNCHANGED <<localStorage, environment, keyBase, calls, randoms, written,
                   probe, returned>>

\* handleLogin resumed after await validateToken(), up to its next await or to
\* its end.
HandleLoginValidated(validation) ==
    /\ dashboard.login.pc = "validate" /\ Quiet
    /\ LET branch == LoginBranch(validation, dashboard.login.remember)
       IN  CASE branch = "catch" ->
                  /\ dashboard' = [dashboard EXCEPT
                                      !.login = [NoLogin EXCEPT
                                                    !.validation = validation],
                                      !.toast = "error"]
                  /\ UNCHANGED <<localStorage, environment, keyBase, calls,
                                 randoms, written, probe, returned>>
            [] branch = "store" ->
                  \E c \in CallIds :
                      /\ StoreCredentialsBegin(c,
                             Obj(<<Member(GithubToken,
                                          dashboard.login.githubToken)>>))
                      /\ dashboard' = [dashboard EXCEPT
                                          !.login.pc = "store",
                                          !.login.validation = validation,
                                          !.awaiting[c] = "login"]
            [] branch = "clear" ->
                  /\ localStorage' = clearCredentials(localStorage)
                  /\ written' = NotWritten
                  /\ \E toast \in LoginToasts :
                        dashboard' = [dashboard EXCEPT
                                         !.login = [NoLogin EXCEPT
                                                       !.validation = validation],
                                         !.screen = "dashboard",
                                         !.toast = toast,
                                         !.cleared = TRUE]
                  /\ calls' = ClearedUnder(calls)
                  /\ UNCHANGED <<environment, keyBase, randoms, probe,
                                 returned>>

\* handleLogin resumed after await storeCredentials(): the dashboard is shown,
\* or the catch reports the error.
HandleLoginStored(c) ==
    /\ dashboard.awaiting[c] = "login" /\ calls[c].pc = "done"
    /\ \E toast \in LoginToasts :
          /\ calls[c].settled = "rejected" => toast = "error"
          /\ dashboard' = [dashboard EXCEPT
                !.awaiting[c] = "none",
                !.login = [NoLogin EXCEPT
                              !.validation = dashboard.login.validation],
                !.screen = IF calls[c].settled = "resolved" THEN "dashboard"
                           ELSE @,
                !.toast = toast]
    /\ UNCHANGED <<localStorage, environment, keyBase, calls, randoms, written,
                   probe, returned>>

\* handleLogout up to the await in checkStoredCredentials: the login screen is
\* shown, the form is reset, getCredentials is called.
HandleLogout(c) ==
    /\ dashboard.pc = "bound" /\ dashboard.screen = "dashboard" /\ Quiet
    /\ GetCredentialsBegin(c)
    /\ dashboard' = [dashboard EXCEPT
                        !.screen = "login", !.token = <<>>,
                        !.remember = FALSE, !.cleared = FALSE,
                        !.awaiting[c] = "logout"]

\* checkStoredCredentials resumed after await getCredentials(), and the
\* handler that awaited it to its end.
CheckStoredCredentialsReturn(c) ==
    /\ dashboard.awaiting[c] \in {"init", "logout"} /\ calls[c].pc = "done"
    /\ LET credentials == calls[c].result
           githubToken == Property(credentials, GithubToken)
           toast == IF dashboard.awaiting[c] = "logout" THEN "logged-out"
                    ELSE dashboard.toast
       IN  IF calls[c].settled = "rejected"
           THEN /\ localStorage' = clearCredentials(localStorage)
                /\ written' = NotWritten
                /\ calls' = ClearedUnder(calls)
                /\ dashboard' = [dashboard EXCEPT !.awaiting[c] = "none",
                                                  !.toast = toast,
                                                  !.cleared = TRUE,
                                                  !.unreadable = FALSE]
           ELSE /\ dashboard' =
                      IF Truthy(credentials) /\ Truthy(githubToken)
                      THEN [dashboard EXCEPT !.awaiting[c] = "none",
                                             !.toast = toast,
                                             !.token = githubToken.s,
                                             !.remember = TRUE,
                                             !.unreadable = FALSE]
                      ELSE [dashboard EXCEPT !.awaiting[c] = "none",
                                             !.toast = toast,
                                             !.unreadable = FALSE]
                /\ UNCHANGED <<localStorage, written, calls>>
    /\ UNCHANGED <<environment, keyBase, randoms, probe, returned>>

\* The steps of the vault's calls between a handler's await and its
\* continuation.
VaultStep(c) ==
    \/ StoreCredentialsResume(c)
    \/ GetCredentialsDecrypted(c)
    \/ GetCredentialsMigrated(c)
    \/ GetCredentialsReturn(c)

NextAdmin ==
    \/ \E c \in CallIds : AdminInit(c)
    \/ \E token \in TokenInputs : TypeToken(token)
    \/ ToggleRemember
    \/ HandleLoginSubmit
    \/ \E validation \in Validations : HandleLoginValidated(validation)
    \/ \E c \in CallIds : HandleLoginStored(c)
    \/ \E c \in CallIds : HandleLogout(c)
    \/ \E c \in CallIds : CheckStoredCredentialsReturn(c)
    \/ \E c \in CallIds : VaultStep(c)

SpecAdmin == InitAdmin /\ [][NextAdmin]_vars

-----------------------------------------------------------------------------
(* Properties *)

\* The step on which getCredentials returns from its decrypt branch.
GetDecryptedStep(c) ==
    /\ calls[c].op = "getCredentials"
    /\ calls[c].pc = "decrypt"
    /\ calls'[c].pc = "done"

\* What a getCredentials that nothing interrupts makes of the encrypted key.
Retrieved(storage) ==
    DecryptBranch(storage, storage.encrypted.s, keyBase,
                  environment.subtle).result

\* C1: a getCredentials that read the record a storeCredentials(C) of a vault
\* with the same keyBase wrote resolves to C, and neither of its steps
\* changes the encrypted key.
StoreThenGet ==
    [][\A c \in CallIds :
          (GetDecryptedStep(c) /\ calls[c].read.seed = keyBase)
          => /\ calls'[c].settled = "resolved"
             /\ calls'[c].result = calls[c].read.credentials
             /\ localStorage'.encrypted = localStorage.encrypted]_vars

\* C1 happens: a getCredentials has returned the credentials of the first
\* record written, and the record is still there.
StoreThenGetReached ==
    \E c \in CallIds :
        /\ calls[c].op = "getCredentials" /\ calls[c].pc = "done"
        /\ calls[c].read.credentials # Null
        /\ calls[c].read.replaced = Null
        /\ calls[c].result = calls[c].read.credentials
        /\ localStorage.encrypted # Null

\* C2, as the specification states it: when the encrypted key holds a value
\* that decrypt or JSON.parse rejects, getCredentials returns null and has
\* removed the encrypted key.
UndecryptableRemoved ==
    [][\A c \in CallIds :
          /\ (/\ GetCredentialsCall(c)
              /\ localStorage.encrypted # Null
              /\ ~Readable(localStorage.encrypted.s)
              /\ calls'[c].pc = "done")
             => (calls'[c].result = Null /\ localStorage'.encrypted = Null)
          /\ (GetDecryptedStep(c) /\ ~Readable(calls[c].encrypted))
             => (calls'[c].result = Null /\ localStorage'.encrypted = Null)
      ]_vars

\* C3, as the specification states it: a getCredentials that took the
\* migration branch returns the object parsed from the old key, and the old
\* key is removed.
LegacyMigrated ==
    [][\A c \in CallIds :
          (/\ calls[c].op = "getCredentials"
           /\ calls[c].pc = "migrated"
           /\ calls'[c].pc = "done")
          => /\ calls'[c].result = calls[c].credentials
             /\ localStorage'.legacy = Null]_vars

\* C4: clearCredentials leaves both keys unset whatever they held, so that
\* hasStoredCredentials is false; and a getCredentials called with both keys
\* unset returns null at once and sets neither.
ClearLeavesNothing ==
    [][/\ ClearCredentials
          => /\ localStorage' = Storage(Null, Null)
             /\ ~hasStoredCredentials(localStorage')
       /\ \A c \in CallIds :
             (GetCredentialsCall(c) /\ localStorage = Storage(Null, Null))
             => /\ calls'[c].pc = "done"
                /\ calls'[c].settled = "resolved"
                /\ calls'[c].result = Null
                /\ localStorage' = localStorage]_vars

\* C4 happens: the only call since the page loaded is a storeCredentials that
\* resolved, and both keys are unset: clearCredentials has removed its record.
ClearLeavesNothingReached ==
    /\ calls[1].op = "storeCredentials" /\ calls[1].pc = "done"
    /\ calls[1].settled = "resolved"
    /\ \A c \in CallIds \ {1} : calls[c] = Idle
    /\ localStorage = Storage(Null, Null)

\* C5: when storeCredentials(B) resolves, what getCredentials retrieves from
\* the encrypted key is B, whatever record the key held before (none, one of
\* other credentials, or one of B itself).
LastWriteWins ==
    [][\A c \in CallIds :
          (/\ calls[c].op = "storeCredentials"
           /\ calls[c].pc = "encrypt"
           /\ calls'[c].settled = "resolved")
          => Retrieved(localStorage') = calls[c].credentials]_vars

\* C5 happens: two storeCredentials calls, one after the other, with different
\* credentials; the second has resolved.
LastWriteWinsReached ==
    /\ calls[1].op = "storeCredentials" /\ calls[1].pc = "done"
    /\ calls[1].settled = "resolved"
    /\ \A c \in CallIds \ {1} : calls[c] = Idle
    /\ written.replaced # Null
    /\ written.replaced # written.credentials

\* C6: every getCredentials that has settled resolved, to null or to an
\* object.
GetNeverThrows ==
    \A c \in CallIds :
        (calls[c].op = "getCredentials" /\ calls[c].pc = "done")
        => /\ calls[c].settled = "resolved"
           /\ calls[c].result.t \in {"null", "object"}

\* C6 happens: the storeCredentials of a migration rejected, and the
\* getCredentials around it has settled.
GetNeverThrowsReached ==
    \E c \in CallIds :
        /\ calls[c].op = "getCredentials" /\ calls[c].pc = "done"
        /\ calls[c].inner = "rejected"

\* C7, as the specification states it: with the encrypted key unset and text
\* in the old key that is not JSON, getCredentials returns null, removes the
\* old key and does not set the encrypted key.
MalformedLegacyRemoved ==
    [][\A c \in CallIds :
          (/\ GetCredentialsCall(c)
           /\ localStorage.encrypted = Null
           /\ localStorage.legacy # Null
           /\ ~JSONParse(localStorage.legacy.s).ok)
          => /\ calls'[c].pc = "done"
             /\ calls'[c].result = Null
             /\ localStorage' = Storage(Null, Null)]_vars

\* C8, as the specification states it: decrypt of what encrypt returned for
\* a plaintext, in the same vault, returns that plaintext.
RoundTrip ==
    (probe.op = "decrypted" /\ probe.changed = 0)
    => (probe.decrypted.ok /\ probe.decrypted.val = probe.plaintext)

\* C9: decrypt rejects a record of encrypt in which one decoded byte was
\* changed, wherever the byte is.
ChangedByteRejected ==
    (probe.op = "decrypted" /\ probe.changed # 0) => ~probe.decrypted.ok

\* C9 happens: a byte of the ciphertext of a plaintext that is not empty was
\* changed, and decrypt has been called on the record.
ChangedByteRejectedReached ==
    /\ probe.op = "decrypted"
    /\ Len(probe.plaintext) > 0
    /\ probe.changed > 28
    /\ probe.changed <= 28 + Len(stringToBuffer(probe.plaintext))

\* C10: a getCredentials of a vault whose keyBase is not the one the record
\* it read was written under finds that decrypt rejects the record, and
\* resolves to null.
OtherSeedRejected ==
    [][\A c \in CallIds :
          (/\ GetDecryptedStep(c)
           /\ calls[c].read.seed # <<>>
           /\ calls[c].read.seed # keyBase)
          => /\ ~decrypt(calls[c].encrypted, keyBase, environment.subtle).ok
             /\ calls'[c].settled = "resolved"
             /\ calls'[c].result = Null]_vars

\* C10 happens: a getCredentials has returned from a record that was written
\* under another keyBase.
OtherSeedRejectedReached ==
    \E c \in CallIds :
        /\ calls[c].op = "getCredentials" /\ calls[c].pc = "done"
        /\ calls[c].read.seed # <<>>
        /\ calls[c].read.seed # keyBase

\* C12: hasStoredCredentials returns true exactly when one of the two keys is
\* set; the call starts no decrypt, draws no random values and leaves both
\* keys as they were, also when the encrypted key holds what decrypt rejects.
HasIsPresence ==
    [][returned'.op = "hasStoredCredentials"
       => /\ returned'.value = (localStorage.encrypted # Null
                                \/ localStorage.legacy # Null)
          /\ localStorage' = localStorage
          /\ calls' = calls
          /\ randoms' = randoms]_vars

\* C12 happens: hasStoredCredentials has returned true with only the encrypted
\* key set, to a value that decrypt rejects.
HasIsPresenceReached ==
    /\ returned.op = "hasStoredCredentials"
    /\ returned.value
    /\ localStorage.legacy = Null
    /\ localStorage.encrypted # Null
    /\ ~Readable(localStorage.encrypted.s)

\* The step on which a storeCredentials completes: one called directly, or the
\* one a getCredentials awaits in its migration branch.
StoreCompletedStep(c) ==
    \/ /\ calls[c].op = "storeCredentials" /\ calls[c].pc = "encrypt"
       /\ calls'[c].settled = "resolved"
    \/ /\ calls[c].op = "getCredentials" /\ calls[c].pc = "migrate"
       /\ calls'[c].inner = "resolved"

\* C13: when storeCredentials(C) completes, the encrypted key holds a record
\* that decrypt turns into JSON.stringify(C), and the old unencrypted key is
\* not set, whatever the two keys held before.
StoreLeavesRecordOnly ==
    [][\A c \in CallIds :
          StoreCompletedStep(c)
          => /\ localStorage'.legacy = Null
             /\ localStorage'.encrypted # Null
             /\ decrypt(localStorage'.encrypted.s, keyBase, environment.subtle)
                    = Returned(calls[c].json)
             /\ calls[c].json = JSONStringify(calls[c].credentials)]_vars

\* C13 happens: the only call since the page loaded is a storeCredentials that
\* has completed; its record is in the encrypted key and the old key is unset.
StoreLeavesRecordOnlyReached ==
    /\ calls[1].op = "storeCredentials" /\ calls[1].pc = "done"
    /\ calls[1].settled = "resolved"
    /\ \A c \in CallIds \ {1} : calls[c] = Idle
    /\ written.credentials # Null
    /\ localStorage.legacy = Null
    /\ localStorage.encrypted # Null

\* C16, as the specification states it: when getCredentials returns null
\* because decrypt rejected the text of the encrypted key, neither key is set
\* when the call returns.
DecryptFailureEmpties ==
    [][\A c \in CallIds :
          (/\ GetDecryptedStep(c)
           /\ ~decrypt(calls[c].encrypted, keyBase, environment.subtle).ok)
          => /\ calls'[c].result = Null
             /\ localStorage' = Storage(Null, Null)]_vars

\* C17, as the specification states it: a getCredentials called with both
\* keys set decides from the encrypted key alone: it does not go on to the
\* branch that returns the content of the old key, it leaves the old key as
\* it is, and when the record decrypts and parses it leaves both keys as they
\* are.
CurrentKeyAuthoritative ==
    [][\A c \in CallIds :
          /\ (/\ GetCredentialsCall(c)
              /\ localStorage.encrypted # Null
              /\ localStorage.legacy # Null)
             => /\ calls'[c].pc # "migrate"
                /\ localStorage'.legacy = localStorage.legacy
          /\ (/\ GetDecryptedStep(c)
              /\ localStorage.legacy # Null
              /\ Readable(calls[c].encrypted))
             => localStorage' = localStorage]_vars

\* C18, as the specification states it: a call that goes on to encrypt or to
\* decrypt derives its key from the seed generateKeyBase computes from the
\* environment as it is when the call is made.
SeedOfTheCall ==
    [][\A c \in CallIds :
          (/\ Free(c)
           /\ calls'[c].pc \in {"encrypt", "decrypt", "migrate"})
          => keyBase = generateKeyBase(environment)]_vars

\* The encrypt calls of a behaviour whose records are as encrypt returned
\* them: those put aside, and the last one while it is unchanged.
EncryptCalls ==
    IF probe.op = "encrypted" /\ probe.changed = 0
    THEN Append(probe.records, Record(probe))
    ELSE probe.records

\* C11, as the specification states it: no two encrypt calls of a behaviour
\* drew the same pair of salt and iv, and two encrypt calls with the same
\* plaintext returned different records, each of which decrypt turns back
\* into that plaintext.
FreshSaltAndIv ==
    \A i, j \in 1..Len(EncryptCalls) :
        i < j =>
          LET a == EncryptCalls[i]
              b == EncryptCalls[j]
          IN  /\ <<a.salt, a.iv>> # <<b.salt, b.iv>>
              /\ (a.plaintext = b.plaintext /\ a.encrypted.ok /\ b.encrypted.ok)
                 => /\ a.encrypted # b.encrypted
                    /\ decrypt(a.encrypted.val, keyBase, environment.subtle)
                           = Returned(a.plaintext)
                    /\ decrypt(b.encrypted.val, keyBase, environment.subtle)
                           = Returned(b.plaintext)

\* C19: decrypt throws, and returns no string, for a text that is not base64
\* and for a text that decodes to fewer than 28 bytes, the empty text
\* included.
ShortOrUndecodableRejected ==
    (/\ probe.op \in {"given", "decrypted"}
     /\ LET decoded == base64ToBuffer(probe.given)
        IN  ~decoded.ok \/ Len(decoded.val) < 28)
    => probe.decrypted = Thrown

\* C19 happens: where crypto.subtle is there, decrypt has been given the salt
\* and a part of the iv of a record, and nothing more.
ShortOrUndecodableRejectedReached ==
    /\ probe.op = "given"
    /\ environment.subtle
    /\ probe.encrypted.ok
    /\ LET decoded == base64ToBuffer(probe.given)
       IN  decoded.ok /\ Len(decoded.val) > 16 /\ Len(decoded.val) < 28

\* C20: a record of encrypt decodes to the 16 bytes of the salt, then the 12
\* bytes of the iv, then the encrypted data with its tag, 28 bytes and the
\* encrypted data in all; the slices decrypt takes are the salt, the iv and
\* the encrypted data that encrypt wrote.
RecordLayout ==
    (probe.op = "encrypted" /\ probe.changed = 0 /\ probe.encrypted.ok)
    => LET combined == base64ToBuffer(probe.encrypted.val).val
           key == deriveKey(probe.seed, probe.salt, environment.subtle)
           encrypted == AesGcmEncrypt(key.val, probe.iv,
                                      stringToBuffer(probe.plaintext))
       IN  /\ Len(probe.salt) = 16
           /\ Len(probe.iv) = 12
           /\ Len(combined) = 28 + Len(encrypted)
           /\ Slice(combined, 0, 16) = probe.salt
           /\ Slice(combined, 16, 28) = probe.iv
           /\ Slice(combined, 28, Len(combined)) = encrypted

\* C20 happens: encrypt has returned the record of a plaintext that is not
\* empty.
RecordLayoutReached ==
    /\ probe.op = "encrypted" /\ probe.changed = 0 /\ probe.encrypted.ok
    /\ Len(probe.plaintext) > 0

\* C14, as the specification states it: when handleLogout completes,
\* clearCredentials has been called since it began, neither key is set and
\* hasStoredCredentials returns false.
LogoutDestroys ==
    [][\A c \in CallIds :
          (dashboard.awaiting[c] = "logout" /\ dashboard'.awaiting[c] = "none")
          => /\ dashboard'.cleared
             /\ localStorage' = Storage(Null, Null)
             /\ ~hasStoredCredentials(localStorage')]_vars

\* C15: handleLogin calls storeCredentials only from its continuation after
\* validateToken, when the validation is valid and remember was checked, and
\* with the token of the form; a submit with an empty token, and a validation
\* that is not valid, start no call and leave both keys as they were.
StoreOnlyValidAndRemembered ==
    [][/\ \A c \in CallIds :
             (Free(c) /\ calls'[c].op = "storeCredentials"
                      /\ calls'[c].pc = "encrypt")
             => /\ dashboard.login.pc = "validate"
                /\ dashboard'.login.validation = "valid"
                /\ dashboard.login.remember
                /\ calls'[c].credentials =
                       Obj(<<Member(GithubToken, dashboard.login.githubToken)>>)
       /\ (HandleLoginSubmit /\ Trim(dashboard.token) = <<>>)
          => (localStorage' = localStorage /\ calls' = calls)
       /\ (/\ dashboard.login.pc = "validate"
           /\ dashboard'.login.pc # "validate"
           /\ dashboard'.login.validation # "valid")
          => (localStorage' = localStorage /\ calls' = calls)]_vars

\* C15 happens: after a valid validation with remember checked, handleLogin
\* awaits the storeCredentials it called.
StoreOnlyValidAndRememberedReached ==
    /\ dashboard.login.pc = "store"
    /\ dashboard.login.validation = "valid"
    /\ dashboard.login.remember
    /\ \E c \in CallIds :
          /\ dashboard.awaiting[c] = "login"
          /\ calls[c].op = "storeCredentials"
          /\ calls[c].pc = "encrypt"

CallsSettle ==
    /\ \A c \in CallIds :
          (calls[c].pc \in {"encrypt", "decrypt", "migrate", "migrated"})
          ~> (calls[c].pc = "done"
              /\ calls[c].settled \in {"resolved", "rejected"})
    /\ [][(ClearCredentials \/ HasStoredCredentials)
          => \A c \in CallIds : /\ calls'[c].pc = calls[c].pc
                                /\ calls'[c].settled = calls[c].settled]_vars

\* C22 happens: a storeCredentials that was suspended at its await has
\* rejected, and a getCredentials that was suspended has resolved.
CallsSettleReached ==
    \E c, d \in CallIds :
        /\ calls[c].op = "storeCredentials" /\ calls[c].pc = "done"
        /\ calls[c].settled = "rejected"
        /\ calls[d].op = "getCredentials" /\ calls[d].pc = "done"
        /\ calls[d].inner # "none"

\* C23, as the specification states it: when the encrypted key held at
\* startup a value that cannot be decrypted, the continuation of
\* checkStoredCredentials leaves the token field and the checkbox as they
\* were and shows no toast; and it fills the form only when getCredentials
\* returned an object whose githubToken is a string that is not empty.
FailedDecryptInvisible ==
    [][\A c \in CallIds :
          (dashboard.awaiting[c] = "init" /\ dashboard'.awaiting[c] = "none")
          => /\ dashboard.unreadable
                => /\ dashboard'.token = dashboard.token
                   /\ dashboard'.remember = dashboard.remember
                   /\ dashboard'.toast = dashboard.toast
             /\ (\/ dashboard'.token # dashboard.token
                 \/ dashboard'.remember # dashboard.remember)
                => /\ calls[c].settled = "resolved"
                   /\ calls[c].result.t = "object"
                   /\ Truthy(Property(calls[c].result, GithubToken))]_vars

\* C24: no step of the vault sets the old unencrypted key or changes its
\* value: every step leaves the key as it was or removes it.
LegacyNeverWritten ==
    [][localStorage'.legacy \in {localStorage.legacy, Null}]_vars

\* C24 happens: a getCredentials has migrated what the old key held and has
\* returned; the old key is removed and the encrypted key holds the record.
LegacyNeverWrittenReached ==
    \E c \in CallIds :
        /\ calls[c].op = "getCredentials" /\ calls[c].pc = "done"
        /\ calls[c].inner = "resolved"
        /\ localStorage.legacy = Null
        /\ localStorage.encrypted # Null

\* C25: a step of the vault taken with at most one of the two keys set leaves
\* at most one of them set; so when the page loads with at most one key set,
\* no state has both.
NeverBothKeys ==
    [][(localStorage.encrypted = Null \/ localStorage.legacy = Null)
       => (localStorage'.encrypted = Null \/ localStorage'.legacy = Null)]_vars

\* C25 happens: the storeCredentials of a migration has written the record
\* while the getCredentials around it has not yet removed the old key itself.
NeverBothKeysReached ==
    \E c \in CallIds :
        /\ calls[c].op = "getCredentials" /\ calls[c].pc = "migrated"
        /\ calls[c].inner = "resolved"
        /\ localStorage.encrypted # Null
        /\ localStorage.legacy = Null

\* C26: a storeCredentials changes neither key before its await, and when
\* encrypt fails it rejects and leaves both keys as they are; it rejects only
\* when encrypt fails.
StoreAllOrNothing ==
    [][\A c \in CallIds :
          /\ (/\ calls[c].pc # "encrypt"
              /\ calls'[c].op = "storeCredentials" /\ calls'[c].pc = "encrypt")
             => localStorage' = localStorage
          /\ (/\ calls[c].op = "storeCredentials" /\ calls[c].pc = "encrypt"
              /\ calls'[c].pc = "done")
             => /\ calls'[c].settled = "rejected"
                   <=> ~encrypt(calls[c].json, keyBase, calls[c].salt,
                                calls[c].iv, environment.subtle).ok
                /\ calls'[c].settled = "rejected"
                   => localStorage' = localStorage]_vars

\* C26 happens: a storeCredentials has rejected while the old unencrypted key
\* was set, and the key is still set.
StoreAllOrNothingReached ==
    \E c \in CallIds :
        /\ calls[c].op = "storeCredentials" /\ calls[c].pc = "done"
        /\ calls[c].settled = "rejected"
        /\ localStorage.legacy # Null

ClearNotUndone ==
    [][\A c \in CallIds :
          (/\ calls[c].pc \in {"encrypt", "migrate"}
           /\ calls[c].cleared
           /\ calls'[c].pc # calls[c].pc)
          => localStorage'.encrypted = localStorage.encrypted]_vars

\* C29, as the specification states it: when getCredentials, resumed after a
\* decrypt that failed, removes the encrypted key, the key holds the text that
\* the call read and could not decrypt, not a record written since.
GetRemovesWhatItRead ==
    [][\A c \in CallIds :
          (/\ GetDecryptedStep(c)
           /\ localStorage.encrypted # Null
           /\ localStorage'.encrypted = Null)
          => localStorage.encrypted = Str(calls[c].encrypted)]_vars

\* C30, as the specification states it: when a storeCredentials(N) has written
\* the encrypted key while a getCredentials was awaiting the encrypt of its
\* migration, the key still decrypts to N once the migration has been
\* resumed, not to the credentials of the old key.
SaveBeatsMigration ==
    [][\A c \in CallIds :
          (/\ calls[c].op = "getCredentials" /\ calls[c].pc = "migrate"
           /\ calls'[c].pc = "migrated"
           /\ written.credentials # Null
           /\ written.credentials # calls[c].credentials
           /\ written.seed = keyBase)
          => Retrieved(localStorage') = written.credentials]_vars

====
